---- MODULE Spec2Model ----
(***************************************************************************)
(* The reclamation engine of english-openlist: the rule validator, the     *)
(* heuristic prioritizer, the dictionary fallback chain and the daily      *)
(* validation run with its progress file.                                  *)
(*                                                                         *)
(* A word is a sequence of one-character strings, <<"m","i","n","d">>.     *)
(***************************************************************************)
EXTENDS Integers, Sequences, FiniteSets, TLC

(***************************************************************************)
(* Characters and the str methods the code uses.                           *)
(***************************************************************************)
LowerLetters == <<"a","b","c","d","e","f","g","h","i","j","k","l","m",
                  "n","o","p","q","r","s","t","u","v","w","x","y","z">>
UpperLetters == <<"A","B","C","D","E","F","G","H","I","J","K","L","M",
                  "N","O","P","Q","R","S","T","U","V","W","X","Y","Z">>
LowerSet == {LowerLetters[k] : k \in 1..26}
UpperSet == {UpperLetters[k] : k \in 1..26}
Whitespace == {" ", "\t", "\n", "\r", "\f"}
Vowels == {"a","e","i","o","u"}
RareConsonants == {"j","k","q","v","w","x","z"}
CommonStart == {"s","t","c","p","b","d","m","r","a","h","f","g","l","e","w","n"}

Range(s) == {s[k] : k \in 1..Len(s)}

\* str.lower() on one character
char_lower(c) ==
    IF c \in UpperSet
    THEN LowerLetters[CHOOSE k \in 1..26 : UpperLetters[k] = c]
    ELSE c

\* str.lower()
str_lower(w) == [k \in 1..Len(w) |-> char_lower(w[k])]

\* str.strip(): leading and trailing whitespace removed
RECURSIVE lstrip(_)
lstrip(w) == IF w # <<>> /\ Head(w) \in Whitespace THEN lstrip(Tail(w)) ELSE w
RECURSIVE rstrip(_)
rstrip(w) ==
    IF w # <<>> /\ w[Len(w)] \in Whitespace
    THEN rstrip(SubSeq(w, 1, Len(w) - 1))
    ELSE w
str_strip(w) == rstrip(lstrip(w))

startswith(w, p) == Len(p) <= Len(w) /\ SubSeq(w, 1, Len(p)) = p
endswith(w, s) == Len(s) <= Len(w) /\ SubSeq(w, Len(w) - Len(s) + 1, Len(w)) = s
\* re.search of a literal
contains(w, p) == \E k \in 1..(Len(w) - Len(p) + 1) : SubSeq(w, k, k + Len(p) - 1) = p

\* sum(1 for c in word if c in 'aeiou')
CountVowels(w) == Cardinality({k \in 1..Len(w) : w[k] \in Vowels})

(***************************************************************************)
(* Rule validator (word_validator.py).                                     *)
(***************************************************************************)
MIN_LENGTH == 2
MAX_LENGTH == 45
VALIDATION_RULES ==
    [lowercase_only |-> TRUE, alphabetic_only |-> TRUE,
     min_length |-> MIN_LENGTH, max_length |-> MAX_LENGTH]

\* self.alphabetic_pattern.match(word): ^[a-z]+$ or ^[a-zA-Z]+$
alphabetic_pattern(rules, w) ==
    /\ w # <<>>
    /\ \A k \in 1..Len(w) :
          \/ w[k] \in LowerSet
          \/ (~rules.lowercase_only /\ w[k] \in UpperSet)

\* validate with the maximum length itself rejected
validate_max_exclusive(rules, original_word) ==
    LET word == str_strip(original_word) IN
    IF original_word = <<>>
    THEN [word |-> <<>>, is_valid |-> FALSE, reason |-> "Empty or None word"]
    ELSE IF rules.lowercase_only /\ word # str_lower(word)
    THEN [word |-> original_word, is_valid |-> FALSE,
          reason |-> "Contains uppercase letters (potential proper noun)"]
    ELSE IF rules.alphabetic_only /\ ~alphabetic_pattern(rules, word)
    THEN [word |-> original_word, is_valid |-> FALSE,
          reason |-> "Contains non-alphabetic characters"]
    ELSE IF Len(word) < rules.min_length
    THEN [word |-> original_word, is_valid |-> FALSE, reason |-> "Too short"]
    ELSE IF Len(word) >= rules.max_length
    THEN [word |-> original_word, is_valid |-> FALSE, reason |-> "Too long"]
    ELSE [word |-> word, is_valid |-> TRUE, reason |-> "None"]

\* WordValidator.validate
validate(rules, original_word) ==
    LET word == str_strip(original_word) IN
    IF original_word = <<>>
    THEN [word |-> <<>>, is_valid |-> FALSE, reason |-> "Empty or None word"]
    ELSE IF rules.lowercase_only /\ word # str_lower(word)
    THEN [word |-> original_word, is_valid |-> FALSE,
          reason |-> "Contains uppercase letters (potential proper noun)"]
    ELSE IF rules.alphabetic_only /\ ~alphabetic_pattern(rules, word)
    THEN [word |-> original_word, is_valid |-> FALSE,
          reason |-> "Contains non-alphabetic characters"]
    ELSE IF Len(word) < rules.min_length
    THEN [word |-> original_word, is_valid |-> FALSE, reason |-> "Too short"]
    ELSE IF Len(word) > rules.max_length
    THEN [word |-> original_word, is_valid |-> FALSE, reason |-> "Too long"]
    ELSE [word |-> word, is_valid |-> TRUE, reason |-> "None"]

(***************************************************************************)
(* Heuristic prioritizer (validate_invalid_list.py, WordPrioritizer).      *)
(***************************************************************************)
PRODUCTIVE_PREFIXES ==
    { <<"a","n","t","i">>, <<"n","o","n">>, <<"p","r","e">>, <<"p","o","s","t">>,
      <<"m","u","l","t","i">>, <<"s","e","m","i">>, <<"p","s","e","u","d","o">>,
      <<"q","u","a","s","i">>, <<"u","l","t","r","a">>, <<"s","u","p","e","r">>,
      <<"h","y","p","e","r">>, <<"m","e","g","a">>, <<"m","i","c","r","o">>,
      <<"m","a","c","r","o">>, <<"n","e","o">>, <<"p","r","o","t","o">>,
      <<"c","o","u","n","t","e","r">>, <<"i","n","t","e","r">>,
      <<"i","n","t","r","a">>, <<"e","x","t","r","a">>, <<"t","r","a","n","s">> }

REAL_WORD_PREFIXES ==
    { <<"u","n">>, <<"r","e">>, <<"d","i","s">>, <<"m","i","s">>,
      <<"o","v","e","r">>, <<"o","u","t">>, <<"u","n","d","e","r">> }

SUFFIXES ==
    { <<"i","n","g">>, <<"e","d">>, <<"e","r">>, <<"e","s","t">>, <<"l","y">>,
      <<"t","i","o","n">>, <<"s","i","o","n">>, <<"n","e","s","s">>,
      <<"m","e","n","t">>, <<"a","b","l","e">>, <<"i","b","l","e">>,
      <<"f","u","l">>, <<"l","e","s","s">>, <<"o","u","s">>, <<"i","v","e">>,
      <<"a","l">>, <<"i","c","a","l">>, <<"i","t","y">>, <<"a","n","c","e">>,
      <<"e","n","c","e">>, <<"i","s","m">>, <<"i","s","t">> }

\* n consecutive characters of w, starting at k, none of them a vowel: [^aeiou]{n}
NonVowelsAt(w, k, n) ==
    /\ k >= 1
    /\ k + n - 1 <= Len(w)
    /\ \A j \in k..(k + n - 1) : w[j] \notin Vowels

\* [S]{n,} somewhere in w
RunIn(w, S, n) ==
    \E k \in 1..(Len(w) - n + 1) : \A j \in k..(k + n - 1) : w[j] \in S

\* NON_ENGLISH_PATTERNS, in the order of the list; pattern.search(word) for some pattern.
\* The Portuguese and diacritic patterns (lines 86-87) only match words holding a
\* character outside a-z, which [^a-z] (line 81) matches already.
non_english(w) ==
    \/ \E k \in 1..(Len(w) - 2) : w[k] # "\n" /\ w[k + 1] = w[k] /\ w[k + 2] = w[k]
    \/ NonVowelsAt(w, 1, 5)
    \/ \E k \in 1..(Len(w) - 4) : NonVowelsAt(w, k, 5)
    \/ RunIn(w, Vowels, 4)
    \/ \E k \in 1..Len(w) : w[k] = "q" /\ (k = Len(w) \/ w[k + 1] # "u")
    \/ RunIn(w, RareConsonants, 3)
    \/ \E k \in 1..Len(w) : w[k] \notin LowerSet
    \/ contains(w, <<"s","z","c","z">>) \/ contains(w, <<"z","c","z">>)
    \/ contains(w, <<"t","s","z">>)
    \/ \E k \in 1..(Len(w) - 2) : w[k] = "c" /\ w[k + 1] = "z" /\ w[k + 2] \in Vowels
    \/ endswith(w, <<"o","u","g","h">>) \/ endswith(w, <<"g","h","t">>)
    \/ contains(w, <<"s","c","h","w">>) \/ contains(w, <<"t","s","c","h">>)
    \/ NonVowelsAt(w, 1, 4)
    \/ NonVowelsAt(w, Len(w) - 3, 4)
    \/ contains(w, <<"k","h">>)
    \/ \E k \in 1..(Len(w) - 2) : w[k] = "g" /\ w[k + 1] = "h" /\ w[k + 2] # "t"
    \/ contains(w, <<"z","h">>) \/ contains(w, <<"d","j">>)

\* no word is taken for a compound of a productive prefix
productive_compound_never(w) == FALSE

\* the productive-prefix test shared by is_likely_english and score_word
productive_compound(w) ==
    \E prefix \in PRODUCTIVE_PREFIXES : startswith(w, prefix) /\ Len(w) > Len(prefix) + 3

\* WordPrioritizer.is_likely_english (Stage A)
is_likely_english(w) ==
    /\ ~(Len(w) < 3 \/ Len(w) > 15)
    /\ ~non_english(w)
    /\ ~(CountVowels(w) * 100 < 15 * Len(w) \/ CountVowels(w) * 10 > 6 * Len(w))
    /\ ~productive_compound(w)

\* the length bucket of score_word
length_adjustment(length) ==
    IF 3 <= length /\ length <= 5 THEN 25
    ELSE IF 6 <= length /\ length <= 8 THEN 15
    ELSE IF 9 <= length /\ length <= 12 THEN 5
    ELSE IF length = 2 THEN 10
    ELSE IF 13 <= length /\ length <= 16 THEN -10
    ELSE -30

\* the sum score_word accumulates before the clamp
raw_score(w) ==
    LET length == Len(w)
        vowels == CountVowels(w)
    IN  50
        + length_adjustment(length)
        + (IF productive_compound(w) THEN -35 ELSE 0)
        + (IF (\E p \in REAL_WORD_PREFIXES : startswith(w, p) /\ length > Len(p) + 2)
              /\ length <= 10 THEN 5 ELSE 0)
        + (IF (\E s \in SUFFIXES : endswith(w, s) /\ length > Len(s) + 2)
              /\ length <= 10 THEN 5 ELSE 0)
        + (IF length > 0 /\ 4 * vowels >= length /\ 2 * vowels <= length THEN 10
           ELSE IF length > 0 THEN -10 ELSE 0)
        + (IF w[1] \in CommonStart THEN 5 ELSE 0)
        + (IF 10 * Cardinality(Range(w)) >= 6 * length THEN 5 ELSE 0)

Max(a, b) == IF a >= b THEN a ELSE b
Min(a, b) == IF a <= b THEN a ELSE b

\* the score left as the sum came out
score_word_unclamped(w) == raw_score(w)

\* WordPrioritizer.score_word: the score of the returned CandidateWord
score_word(w) == Max(0, Min(100, raw_score(w)))

\* int(c.score // 5) * 5
tier_of(score) == (score \div 5) * 5

(***************************************************************************)
(* Bounds of the model.                                                    *)
(***************************************************************************)
\* lines of the invalid-words file
MaxCorpus == 2
\* the largest --limit an invocation passes (the smallest is -1)
MaxLimit == 2
\* words per batch: config.py sets VALIDATION_BATCH_SIZE = 50; the model runs it
\* with a batch of this size, so that a run of MaxCorpus words spans several batches
VALIDATION_BATCH_SIZE == 1

\* config.py
DAILY_VALIDATION_LIMIT == 1000

mind == <<"m","i","n","d">>
qzxjk == <<"q","z","x","j","k">>
\* the lines the invalid-words file is made of: a word that passes the pre-filter,
\* one that fails it, one that the rule validator rejects too, and a blank line
Lines == {mind, qzxjk, <<"x">>, <<" ">>}

SeqsUpTo(S, n) == UNION {[1..k -> S] : k \in 0..n}
Corpora == SeqsUpTo(Lines, MaxCorpus)
Limits == (-1)..MaxLimit

(***************************************************************************)
(* Dictionary backends and the fallback chain (dictionary_api.py).         *)
(***************************************************************************)
VALID == "valid"
NOT_FOUND == "not_found"
PROPER_NOUN == "proper_noun"
ABBREVIATION == "abbreviation"
ERROR == "error"

\* what a request to each backend, parsed, can come to
MWReplies == {VALID, NOT_FOUND, PROPER_NOUN, ABBREVIATION, ERROR}
MedicalReplies == {VALID, NOT_FOUND, ERROR}
FreeReplies == {VALID, NOT_FOUND, ERROR}

\* MerriamWebsterAPI.lookup_word: the status of the result
MW_lookup_word(api_key, reply) == IF ~api_key THEN ERROR ELSE reply

\* MerriamWebsterMedicalAPI.lookup_word
Medical_lookup_word(api_key, reply) == IF ~api_key THEN NOT_FOUND ELSE reply

\* FreeDictionaryAPI.lookup_word
Free_lookup_word(reply) == reply

Call(backend, status) == [backend |-> backend, status |-> status]

\* lookup_word falling back whenever the primary result is not Valid
lookup_word_on_any_failure(keys, use_fallback, use_medical, mw_reply, med_reply, free_reply) ==
    LET result == MW_lookup_word(keys.mw, mw_reply)
        first == <<Call("mw", result)>>
    IN  IF use_fallback /\ result # VALID
        THEN [status |-> Free_lookup_word(free_reply),
              calls |-> first \o <<Call("free", Free_lookup_word(free_reply))>>]
        ELSE [status |-> result, calls |-> first]

\* DictionaryAPIClient.lookup_word: the final status and the backend calls made, in order.
\* keys.mw and keys.medical say which API keys are set; self.mw_medical is built
\* (InvalidListValidator constructs the client with use_medical = True).
lookup_word(keys, use_fallback, use_medical, mw_reply, med_reply, free_reply) ==
    LET result == MW_lookup_word(keys.mw, mw_reply)
        try_medical == use_medical /\ result = NOT_FOUND /\ keys.medical
        medical_result == Medical_lookup_word(keys.medical, med_reply)
        first == <<Call("mw", result)>>
        second == IF try_medical THEN <<Call("medical", medical_result)>> ELSE <<>>
    IN  IF try_medical /\ medical_result = VALID
        THEN [status |-> medical_result, calls |-> first \o second]
        ELSE IF use_fallback /\ result = NOT_FOUND
        THEN [status |-> Free_lookup_word(free_reply),
              calls |-> first \o second \o <<Call("free", Free_lookup_word(free_reply))>>]
        ELSE [status |-> result, calls |-> first \o second]

(***************************************************************************)
(* Random choices.                                                         *)
(***************************************************************************)
InjectiveSeqs(S, k) ==
    {f \in [1..k -> S] : \A a, b \in 1..k : a # b => f[a] # f[b]}

\* random.sample(population, k), 0 <= k <= len(population): every outcome
random_sample(population, k) ==
    {[j \in 1..k |-> population[f[j]]] : f \in InjectiveSeqs(1..Len(population), k)}

Take(s, n) == SubSeq(s, 1, Min(n, Len(s)))

(***************************************************************************)
(* WordPrioritizer.prioritize_words.                                       *)
(***************************************************************************)
CandidateWord(w) == [word |-> w, score |-> score_word(w)]

\* the survivors are sampled before scoring when they are more than limit times
\* PRESAMPLE_FACTOR, down to limit times SAMPLE_FACTOR of them. The code has 10 and
\* 50; the model keeps the first below the second and takes them small, so that
\* the sampling happens for lists of a few words
PRESAMPLE_FACTOR == 2
SAMPLE_FACTOR == 3

\* no pre-filter: every word is scored
likely_english_unfiltered(words) == words

\* [w for w in words if self.is_likely_english(w)]
likely_english(words) == SelectSeq(words, is_likely_english)

\* the candidates in any order, the tiers ignored
any_orders(cands) ==
    {[j \in 1..Len(cands) |-> cands[f[j]]] : f \in InjectiveSeqs(1..Len(cands), Len(cands))}

\* the orders the tier loop can produce from the scored candidates: tiers from the
\* highest down, any order within a tier (random.shuffle)
tier_orders(cands) ==
    {[j \in 1..Len(cands) |-> cands[f[j]]] : f \in
        {g \in InjectiveSeqs(1..Len(cands), Len(cands)) :
            \A a, b \in 1..Len(cands) :
                a < b => tier_of(cands[g[a]].score) >= tier_of(cands[g[b]].score)}}

\* prioritize_words(words, limit): the exception it raises ("None" when it returns)
\* and every list it can return
prioritize_words(words, limit) ==
    LET likely == likely_english(words)
        presample == Len(likely) > limit * PRESAMPLE_FACTOR
        sample_size == Min(Len(likely), limit * SAMPLE_FACTOR)
        pools == IF presample THEN random_sample(likely, sample_size) ELSE {likely}
    IN  IF words = <<>>
        THEN [raises |-> "ZeroDivisionError", results |-> {}]
        ELSE IF presample /\ sample_size < 0
        THEN [raises |-> "ValueError", results |-> {}]
        ELSE IF \A pool \in pools : pool = <<>>
        THEN [raises |-> "ValueError", results |-> {}]
        ELSE [raises |-> "None",
              results |-> UNION { {Take(order, Max(limit, 0)) :
                                      order \in tier_orders([j \in 1..Len(pool) |->
                                                               CandidateWord(pool[j])])} :
                                  pool \in pools }]

(***************************************************************************)
(* The progress file and the invalid-words file.                           *)
(***************************************************************************)
ZeroProgress ==
    [validated_count |-> 0, promoted_count |-> 0, last_run |-> "None",
     validated_words |-> <<>>]

\* the progress file: absent, holding a complete JSON record, or torn (truncated
\* by open(..., 'w') and not yet, or only partly, written)
Absent == [state |-> "absent", data |-> ZeroProgress]
Torn == [state |-> "torn", data |-> ZeroProgress]
Stored(progress) == [state |-> "ok", data |-> progress]

\* load_progress: json.load raises on a torn file
load_progress_raises(file) == file.state = "torn"
load_progress(file) == IF file.state = "ok" THEN file.data ELSE ZeroProgress

\* [line.strip() for line in f if line.strip()]
all_words(lines) ==
    SelectSeq([k \in 1..Len(lines) |-> str_strip(lines[k])], LAMBDA w : w # <<>>)

\* load_invalid_words without the filter on the words already validated
load_invalid_words_unfiltered(lines, file) == all_words(lines)

\* load_invalid_words
load_invalid_words(lines, file) ==
    LET already_validated == Range(load_progress(file).validated_words)
    IN  SelectSeq(all_words(lines), LAMBDA w : w \notin already_validated)

\* the update overwriting the list of validated words instead of extending it
update_progress_overwriting(progress, cands, valid_words) ==
    [validated_words |-> cands,
     validated_count |-> Len(cands),
     promoted_count |-> Len(valid_words),
     last_run |-> "now"]

\* the update counting every candidate as promoted
update_progress_counting_all(progress, cands, valid_words) ==
    [validated_words |-> progress.validated_words \o cands,
     validated_count |-> progress.validated_count + Len(cands),
     promoted_count |-> progress.promoted_count + Len(cands),
     last_run |-> "now"]

\* the update recording the promoted words only
update_progress_promoted_only(progress, cands, valid_words) ==
    [validated_words |-> progress.validated_words \o valid_words,
     validated_count |-> progress.validated_count + Len(valid_words),
     promoted_count |-> progress.promoted_count + Len(valid_words),
     last_run |-> "now"]

\* the update counting the promoted words as the validated ones
update_progress_counting_promoted(progress, cands, valid_words) ==
    [validated_words |-> progress.validated_words \o cands,
     validated_count |-> progress.validated_count + Len(valid_words),
     promoted_count |-> progress.promoted_count + Len(valid_words),
     last_run |-> "now"]

\* run_daily_validation, "Update progress"
update_progress(progress, cands, valid_words) ==
    [validated_words |-> progress.validated_words \o cands,
     validated_count |-> progress.validated_count + Len(cands),
     promoted_count |-> progress.promoted_count + Len(valid_words),
     last_run |-> "now"]

\* limit = limit or DAILY_VALIDATION_LIMIT
effective_limit(limit) == IF limit = 0 THEN DAILY_VALIDATION_LIMIT ELSE limit

(***************************************************************************)
(* The process: main() and InvalidListValidator.run_daily_validation.      *)
(***************************************************************************)
VARIABLES
    corpus,            \* the lines of INVALID_WORDS_FILE
    file,              \* the progress file on disk
    pc,                \* where the process is: idle (not running), reset_done,
                       \* batches, saving, saved, done, logged, crashed
    api_keys,          \* which API keys the process's environment sets
    limit,             \* the --limit argument of the invocation
    sample_mode,       \* the --sample argument
    invalid_words,     \* run_daily_validation's local of that name
    progress,          \* the progress dict in memory
    candidates,        \* the selected words
    i,                 \* candidates validated so far
    valid,             \* validate_batch's list of the batch in flight
    still_invalid,     \* validate_batch's other list
    all_valid,
    all_still_invalid,
    results,           \* the dict run_daily_validation returns
    error,             \* the exception that ended the process, "None" if none
    last_lookup,       \* the last call of DictionaryAPIClient.lookup_word
    before,            \* history: the progress loaded at the start of the run
    logged_words,      \* history: the words the process has appended to promoted_words.txt
    resolved,          \* history: words selected by the runs completed since the last reset
    wiped              \* history: the last reset deleted a progress file holding words

\* the state of the library's parts when they are exercised apart from a run
VARIABLES
    call,              \* a call of one function of the library: its name and arguments
    returned,          \* what that call returned, NotReturned until it has
    loop_time,         \* the event loop's clock, in units of the request delay
    last_request_time, \* MerriamWebsterAPI._last_request_time
    tasks,             \* the lookups gathered by batch_lookup, each in _rate_limit or past it
    requests           \* history: the times at which the requests were issued, in order

run_vars == <<corpus, file, pc, api_keys, limit, sample_mode, invalid_words, progress,
              candidates, i, valid, still_invalid, all_valid, all_still_invalid, results,
              error, last_lookup, before, logged_words, resolved, wiped>>
call_vars == <<call, returned>>
rate_vars == <<loop_time, last_request_time, tasks, requests>>
vars == <<run_vars, call_vars, rate_vars>>

NoCall == [function |-> "none"]
NotReturned == [function |-> "none"]

\* no function is being exercised apart from the run
NoCalls ==
    /\ call = NoCall
    /\ returned = NotReturned

\* no batch_lookup is under way
NoTasks ==
    /\ loop_time = 0
    /\ last_request_time = 0
    /\ tasks = <<>>
    /\ requests = <<>>

NoKeys == [mw |-> FALSE, medical |-> FALSE]
KeySets == [mw : BOOLEAN, medical : BOOLEAN]
NoResults == [kind |-> "none"]
NoLookup == [word |-> <<>>, status |-> "none", calls |-> <<>>]

\* the locals of a process that is not running
Locals ==
    /\ api_keys = NoKeys
    /\ limit = 0
    /\ sample_mode = FALSE
    /\ invalid_words = <<>>
    /\ progress = ZeroProgress
    /\ candidates = <<>>
    /\ i = 0
    /\ valid = <<>>
    /\ still_invalid = <<>>
    /\ all_valid = <<>>
    /\ all_still_invalid = <<>>
    /\ results = NoResults
    /\ error = "None"
    /\ last_lookup = NoLookup
    /\ before = ZeroProgress
    /\ logged_words = {}

LocalVars == <<api_keys, limit, sample_mode, invalid_words, progress, candidates, i,
               valid, still_invalid, all_valid, all_still_invalid, results, error,
               last_lookup, before, logged_words>>

\* the process has ended: its locals are gone
LocalsCleared ==
    /\ api_keys' = NoKeys
    /\ limit' = 0
    /\ sample_mode' = FALSE
    /\ invalid_words' = <<>>
    /\ progress' = ZeroProgress
    /\ candidates' = <<>>
    /\ i' = 0
    /\ valid' = <<>>
    /\ still_invalid' = <<>>
    /\ all_valid' = <<>>
    /\ all_still_invalid' = <<>>
    /\ results' = NoResults
    /\ error' = "None"
    /\ last_lookup' = NoLookup
    /\ before' = ZeroProgress
    /\ logged_words' = {}

Init ==
    /\ corpus \in Corpora
    /\ file = Absent
    /\ pc = "idle"
    /\ Locals
    /\ resolved = {}
    /\ wiped = FALSE
    /\ NoCalls
    /\ NoTasks

\* a reset that leaves the progress file in place
Reset_keeping_file ==
    /\ pc = "idle"
    /\ pc' = "reset_done"
    /\ wiped' = (file.state = "ok" /\ file.data.validated_words # <<>>)
    /\ resolved' = {}
    /\ UNCHANGED <<corpus, file, LocalVars>>
    /\ UNCHANGED <<call_vars, rate_vars>>

\* main, --reset: the progress file is unlinked if it exists
Reset ==
    /\ pc = "idle"
    /\ file' = Absent
    /\ pc' = "reset_done"
    /\ wiped' = (file.state = "ok" /\ file.data.validated_words # <<>>)
    /\ resolved' = {}
    /\ UNCHANGED <<corpus, LocalVars>>
    /\ UNCHANGED <<call_vars, rate_vars>>

\* the early return of run_daily_validation
EmptyReport ==
    [kind |-> "empty", success |-> TRUE, promoted |-> 0, validated |-> 0,
     promoted_words |-> <<>>]

\* the process ends with an exception before anything was selected
Raise(exception) ==
    /\ pc' = "crashed"
    /\ error' = exception
    /\ UNCHANGED <<invalid_words, progress, candidates, before, results>>

\* the run goes on to its batches with the selection made
Selected(words, loaded, selection) ==
    /\ pc' = "batches"
    /\ invalid_words' = words
    /\ progress' = loaded
    /\ before' = loaded
    /\ candidates' = selection
    /\ UNCHANGED <<error, results>>

\* run_daily_validation up to the selection of the candidates
StartRun ==
    /\ pc \in {"idle", "reset_done"}
    /\ \E lim \in Limits, mode \in BOOLEAN, keys \in KeySets :
        /\ limit' = lim
        /\ sample_mode' = mode
        /\ api_keys' = keys
        /\ IF load_progress_raises(file)
           THEN Raise("JSONDecodeError")
           ELSE LET words == load_invalid_words(corpus, file)
                    loaded == load_progress(file)
                    eff == effective_limit(lim)
                    k == Min(eff, Len(words))
                    chosen == prioritize_words(words, eff)
                IN  IF words = <<>>
                    THEN /\ pc' = "done"
                         /\ results' = EmptyReport
                         /\ progress' = loaded
                         /\ before' = loaded
                         /\ UNCHANGED <<invalid_words, candidates, error>>
                    ELSE IF mode
                    THEN IF k < 0
                         THEN Raise("ValueError")
                         ELSE \E selection \in random_sample(words, k) :
                                 Selected(words, loaded, selection)
                    ELSE IF chosen.raises # "None"
                         THEN Raise(chosen.raises)
                         ELSE \E prioritized \in chosen.results :
                                 Selected(words, loaded,
                                          [j \in 1..Len(prioritized) |-> prioritized[j].word])
    /\ wiped' = FALSE
    /\ UNCHANGED <<corpus, file, i, valid, still_invalid, all_valid, all_still_invalid,
                   last_lookup, resolved>>
    /\ UNCHANGED <<logged_words, call_vars, rate_vars>>

\* validate_batch returns after candidate n: its batch is full or was the last one
batch_end(n) == n = Len(candidates) \/ n % VALIDATION_BATCH_SIZE = 0

\* a proper noun is promoted like a valid word
promotes_proper_nouns(rule_result, status) ==
    rule_result.is_valid /\ status \in {VALID, PROPER_NOUN}

\* validate_batch: the word goes to valid, not to still_invalid
promotes(rule_result, status) == rule_result.is_valid /\ status = VALID

\* one word of validate_batch: the rule check, then the dictionary lookup; at the
\* last word of a batch validate_batch returns and its lists are added to the run's
ValidateWord ==
    /\ pc = "batches"
    /\ i < Len(candidates)
    /\ LET word == candidates[i + 1]
           rule_result == validate(VALIDATION_RULES, word)
       IN  \E mw_reply \in MWReplies, med_reply \in MedicalReplies, free_reply \in FreeReplies :
              LET result == lookup_word(api_keys, TRUE, TRUE, mw_reply, med_reply, free_reply)
                  promoted == promotes(rule_result, result.status)
                  valid1 == IF promoted THEN Append(valid, word) ELSE valid
                  still1 == IF promoted THEN still_invalid ELSE Append(still_invalid, word)
              IN  /\ last_lookup' = IF rule_result.is_valid
                                    THEN [word |-> word, status |-> result.status,
                                          calls |-> result.calls]
                                    ELSE NoLookup
                  /\ i' = i + 1
                  /\ IF batch_end(i + 1)
                     THEN /\ all_valid' = all_valid \o valid1
                          /\ all_still_invalid' = all_still_invalid \o still1
                          /\ valid' = <<>>
                          /\ still_invalid' = <<>>
                     ELSE /\ valid' = valid1
                          /\ still_invalid' = still1
                          /\ UNCHANGED <<all_valid, all_still_invalid>>
    /\ UNCHANGED <<corpus, file, pc, api_keys, limit, sample_mode, invalid_words, progress,
                   candidates, results, error, before, resolved, wiped>>
    /\ UNCHANGED <<logged_words, call_vars, rate_vars>>

\* after the last batch: the progress dict is updated and save_progress opens the
\* file for writing, which truncates it
SaveOpen ==
    /\ pc = "batches"
    /\ i = Len(candidates)
    /\ progress' = update_progress(progress, candidates, all_valid)
    /\ file' = Torn
    /\ pc' = "saving"
    /\ last_lookup' = NoLookup
    /\ UNCHANGED <<corpus, api_keys, limit, sample_mode, invalid_words, candidates, i,
                   valid, still_invalid, all_valid, all_still_invalid, results, error,
                   before, resolved, wiped>>
    /\ UNCHANGED <<logged_words, call_vars, rate_vars>>

\* json.dump has written the whole record and the file is closed
SaveWrite ==
    /\ pc = "saving"
    /\ file' = Stored(progress)
    /\ pc' = "saved"
    /\ UNCHANGED <<corpus, api_keys, limit, sample_mode, invalid_words, progress,
                   candidates, i, valid, still_invalid, all_valid, all_still_invalid,
                   results, error, last_lookup, before, resolved, wiped>>
    /\ UNCHANGED <<logged_words, call_vars, rate_vars>>

\* the write fails part way (OSError): the exception leaves run_daily_validation
WriteFail ==
    /\ pc = "saving"
    /\ pc' = "crashed"
    /\ error' = "OSError"
    /\ UNCHANGED <<corpus, file, api_keys, limit, sample_mode, invalid_words, progress,
                   candidates, i, valid, still_invalid, all_valid, all_still_invalid,
                   results, last_lookup, before, resolved, wiped>>
    /\ UNCHANGED <<logged_words, call_vars, rate_vars>>

\* the results dict with the pool size at the start as the remaining count
Report_remaining_at_start ==
    [kind |-> "report", success |-> TRUE,
     validated |-> Len(candidates),
     promoted |-> Len(all_valid),
     promoted_words |-> all_valid,
     still_invalid |-> Len(all_still_invalid),
     total_validated |-> progress.validated_count,
     total_promoted |-> progress.promoted_count,
     remaining |-> Len(invalid_words)]

\* the results dict of a run that validated candidates
Report ==
    [kind |-> "report", success |-> TRUE,
     validated |-> Len(candidates),
     promoted |-> Len(all_valid),
     promoted_words |-> all_valid,
     still_invalid |-> Len(all_still_invalid),
     total_validated |-> progress.validated_count,
     total_promoted |-> progress.promoted_count,
     remaining |-> Len(invalid_words) - Len(candidates)]

\* the results are assembled and the summary logged (the promotion rate divides by
\* the number validated), and run_daily_validation returns
Finish ==
    /\ pc = "saved"
    /\ IF Len(candidates) = 0
       THEN /\ pc' = "crashed"
            /\ error' = "ZeroDivisionError"
            /\ UNCHANGED results
       ELSE /\ pc' = "done"
            /\ results' = Report
            /\ UNCHANGED error
    /\ resolved' = resolved \cup Range(candidates)
    /\ UNCHANGED <<corpus, file, api_keys, limit, sample_mode, invalid_words, progress,
                   candidates, i, valid, still_invalid, all_valid, all_still_invalid,
                   last_lookup, before, wiped>>
    /\ UNCHANGED <<logged_words, call_vars, rate_vars>>

\* main, after the run has returned promoted words: save_promoted_words appends
\* them to the day's promoted_words.txt
SavePromotedWords ==
    /\ pc = "done"
    /\ results.promoted_words # <<>>
    /\ logged_words' = logged_words \cup Range(results.promoted_words)
    /\ pc' = "logged"
    /\ UNCHANGED <<corpus, file, api_keys, limit, sample_mode, invalid_words, progress,
                   candidates, i, valid, still_invalid, all_valid, all_still_invalid,
                   results, error, last_lookup, before, resolved, wiped>>
    /\ UNCHANGED <<call_vars, rate_vars>>

\* main returns, or the exception ends the process
Exit ==
    /\ \/ pc \in {"logged", "crashed"}
       \/ pc = "done" /\ results.promoted_words = <<>>
    /\ pc' = "idle"
    /\ LocalsCleared
    /\ UNCHANGED <<corpus, file, resolved, wiped>>
    /\ UNCHANGED <<call_vars, rate_vars>>

\* the process is killed while it runs
Interrupt ==
    /\ pc \in {"reset_done", "batches", "saving", "saved", "done", "logged"}
    /\ pc' = "idle"
    /\ LocalsCleared
    /\ wiped' = FALSE
    /\ UNCHANGED <<corpus, file, resolved>>
    /\ UNCHANGED <<call_vars, rate_vars>>

Next ==
    \/ Reset
    \/ StartRun
    \/ ValidateWord
    \/ SaveOpen
    \/ SaveWrite
    \/ WriteFail
    \/ Finish
    \/ SavePromotedWords
    \/ Exit
    \/ Interrupt

Spec == Init /\ [][Next]_vars

(***************************************************************************)
(* Properties.                                                             *)
(***************************************************************************)
\* a run has made its selection and has not yet returned
InFlight == pc \in {"batches", "saving", "saved"}
OnFile == load_progress(file)
NoDuplicates(s) == \A a, b \in 1..Len(s) : a # b => s[a] # s[b]

\* C1: with no reset in between, a word selected by an earlier completed run is
\* not in the pool of a later run, is not selected and is not looked up again.
C1_NeverRechecked ==
    InFlight =>
        /\ resolved \cap Range(invalid_words) = {}
        /\ resolved \cap Range(candidates) = {}
        /\ last_lookup.word \notin resolved

\* a later run validates words after an earlier run completed with a selection
C1_Witness == pc = "batches" /\ i > 0 /\ resolved # {}

\* a run that none of the other defects touches: a limit of at least 1 and a corpus
\* that holds no word twice
PlainRun == limit >= 1 /\ NoDuplicates(all_words(corpus))

\* C2 (as stated): while a run is in flight, the words of every batch it has
\* completed are in the progress file. Stated for plain runs.
C2_BatchesPersisted ==
    (pc = "batches" /\ i < Len(candidates) /\ PlainRun) =>
        \A k \in 1..((i \div VALIDATION_BATCH_SIZE) * VALIDATION_BATCH_SIZE) :
            candidates[k] \in Range(OnFile.validated_words)

\* C3 (as stated): at every point, a save included, the progress file loads as
\* the complete previous record or the complete new one. Stated for plain runs.
C3_AtomicSave ==
    (pc \in {"saving", "saved"} /\ PlainRun) =>
        /\ ~load_progress_raises(file)
        /\ OnFile \in {before, progress}

\* C4: a completed run keeps every validated word and lowers neither counter.
C4_Monotonic ==
    pc \in {"saved", "done"} =>
        /\ Range(before.validated_words) \subseteq Range(OnFile.validated_words)
        /\ OnFile.validated_count >= before.validated_count
        /\ OnFile.promoted_count >= before.promoted_count

\* a run that started from a progress file holding words has saved its own
C4_Witness ==
    /\ pc = "done"
    /\ results.kind = "report"
    /\ before.validated_words # <<>>
    /\ before.promoted_count > 0

\* C5 (as stated): the validated_words list of the progress file holds no word
\* twice, whatever the corpus. Stated for the file a run with a limit of at least 1
\* has just saved.
C5_NoDuplicateWords ==
    (pc = "saved" /\ limit >= 1) => NoDuplicates(OnFile.validated_words)

\* C6: a completed run raises promoted_count by the number of promoted words it
\* reports and validated_count by the number of words it processed.
C6_CounterDeltas ==
    pc = "done" =>
        /\ OnFile.promoted_count - before.promoted_count = Len(results.promoted_words)
        /\ OnFile.validated_count - before.validated_count = i
        /\ i = Len(candidates)
        /\ results.validated = i

\* a run that promoted one word and left another invalid
C6_Witness ==
    /\ pc = "done"
    /\ results.kind = "report"
    /\ results.promoted >= 1
    /\ results.validated > results.promoted

\* C7 (as stated): a run never ends with an exception for want of words to
\* validate: with a limit of at least 1, the only exceptions are those of a progress
\* file that cannot be read or written.
C7_AlwaysReports ==
    (pc = "crashed" /\ limit >= 1) => error \in {"JSONDecodeError", "OSError"}

\* C8 (as stated): with a limit >= 0, a run validates at most limit words.
C8_AtMostLimit == (pc = "done" /\ limit >= 0) => results.validated <= limit

\* C9: after a reset the progress loads as the zero state and the pool of the
\* run that follows is the whole corpus.
C9_ResetRestarts ==
    /\ [](pc = "reset_done" =>
            /\ ~load_progress_raises(file)
            /\ OnFile = ZeroProgress
            /\ load_invalid_words(corpus, file) = all_words(corpus))
    /\ [][(pc = "reset_done" /\ pc' = "batches") => invalid_words' = all_words(corpus)]_vars

\* a reset has deleted a progress file that held words of a non-empty corpus
C9_Witness == pc = "reset_done" /\ wiped /\ all_words(corpus) # <<>>

Positive == {VALID, PROPER_NOUN, ABBREVIATION}

\* a positive result of a backend ends the chain and is the final result
PositiveIsFinal(lookup) ==
    \A k \in 1..Len(lookup.calls) :
        lookup.calls[k].status \in Positive =>
            k = Len(lookup.calls) /\ lookup.status = lookup.calls[k].status

\* C10 (as stated): the chain goes from a backend to the next only when that
\* backend reported NotFound, and a positive result is final.
C10_AdvanceOnlyOnNotFound ==
    /\ \A k \in 1..(Len(last_lookup.calls) - 1) : last_lookup.calls[k].status = NOT_FOUND
    /\ PositiveIsFinal(last_lookup)

\* C10 (amended): the chain leaves the primary backend only when it reported
\* NotFound and the secondary one when it reported NotFound or Error; a positive
\* result is final.
C10_AdvanceRule ==
    /\ \A k \in 1..(Len(last_lookup.calls) - 1) :
          /\ last_lookup.calls[k].backend = "mw" => last_lookup.calls[k].status = NOT_FOUND
          /\ last_lookup.calls[k].backend = "medical" =>
                last_lookup.calls[k].status \in {NOT_FOUND, ERROR}
          /\ last_lookup.calls[k].backend # "free"
    /\ PositiveIsFinal(last_lookup)

\* the chain went through all three backends, the secondary one ending in Error
C10_Witness ==
    /\ Len(last_lookup.calls) = 3
    /\ last_lookup.calls[2].status = ERROR
    /\ last_lookup.status = VALID

\* C11 (as stated): a backend of the chain that ends in Error, its key being set,
\* is not the last one consulted: the chain goes on to the next backend, from the
\* primary backend as from the secondary one.
C11_ChainContinuesOnError ==
    \A k \in 1..Len(last_lookup.calls) :
        (/\ last_lookup.calls[k].status = ERROR
         /\ last_lookup.calls[k].backend = "mw" => api_keys.mw
         /\ last_lookup.calls[k].backend \in {"mw", "medical"})
            => k < Len(last_lookup.calls)

(***************************************************************************)
(* DictionaryAPIClient.lookup_word on its own: every setting of the keys   *)
(* and of the flags, every reply of the three backends.                    *)
(***************************************************************************)
\* no run of the process is under way
NoRun ==
    /\ corpus = <<>>
    /\ file = Absent
    /\ pc = "idle"
    /\ Locals
    /\ resolved = {}
    /\ wiped = FALSE

ChainCalls ==
    [function : {"lookup_word"}, keys : KeySets, use_fallback : BOOLEAN,
     use_medical : BOOLEAN, mw_reply : MWReplies, med_reply : MedicalReplies,
     free_reply : FreeReplies]

ChainInit ==
    /\ call \in ChainCalls
    /\ returned = NotReturned
    /\ NoRun
    /\ NoTasks

\* await client.lookup_word(word, use_fallback, use_medical)
CallLookupWord ==
    /\ call.function = "lookup_word"
    /\ returned = NotReturned
    /\ returned' = [function |-> "lookup_word",
                    result |-> lookup_word(call.keys, call.use_fallback, call.use_medical,
                                           call.mw_reply, call.med_reply, call.free_reply)]
    /\ UNCHANGED <<call, run_vars, rate_vars>>

ChainNext == CallLookupWord

ChainSpec == ChainInit /\ [][ChainNext]_vars

\* C12 (as stated): with the primary backend's API key unset and the fallback on,
\* a word that the tertiary backend knows is resolved Valid.
C12_MissingKeySkipped ==
    (/\ returned.function = "lookup_word"
     /\ ~call.keys.mw
     /\ call.use_fallback
     /\ call.free_reply = VALID)
        => returned.result.status = VALID

(***************************************************************************)
(* A backend's lookup_word under its @retry decorator.                     *)
(***************************************************************************)
\* config.py
MAX_RETRIES == 3

\* what a request can meet: no answer in TIMEOUT seconds, no connection, a 5xx
\* status, a 404, or a 200 whose body parses to a status
Transient == {"timeout", "connect_error", "http_500"}
Parsed(backend) ==
    IF backend = "mw" THEN {VALID, NOT_FOUND, PROPER_NOUN, ABBREVIATION} ELSE {VALID, NOT_FOUND}
Outcomes(backend) == Transient \cup {"http_404"} \cup Parsed(backend)

\* the decorated function, one execution of its body with the key set: the
\* exception it raises ("None" when it returns) and the status of its result
MW_lookup_word_body(outcome) ==
    IF outcome \in Transient \cup {"http_404"}
    THEN [raises |-> "None", status |-> ERROR]    \* except HTTPStatusError / except Exception
    ELSE [raises |-> "None", status |-> outcome]

Free_lookup_word_body(outcome) ==
    IF outcome = "http_404" THEN [raises |-> "None", status |-> NOT_FOUND]
    ELSE IF outcome \in Transient
    THEN [raises |-> "None", status |-> ERROR]    \* except Exception
    ELSE [raises |-> "None", status |-> outcome]

lookup_word_body(backend, outcome) ==
    IF backend = "mw" THEN MW_lookup_word_body(outcome) ELSE Free_lookup_word_body(outcome)

\* the requests a call would meet, one for each attempt the decorator allows
RetryCalls ==
    UNION {[function : {"retry"}, backend : {b}, outcomes : [1..MAX_RETRIES -> Outcomes(b)],
            attempt_number : {0}] : b \in {"mw", "free"}}

RetryInit ==
    /\ call \in RetryCalls
    /\ returned = NotReturned
    /\ NoRun
    /\ NoTasks

\* tenacity's loop, one turn: the function is executed; a result is returned to
\* the caller, an exception leads to another turn unless stop_after_attempt says stop
Attempt ==
    /\ call.function = "retry"
    /\ returned = NotReturned
    /\ LET n == call.attempt_number + 1
           attempt == lookup_word_body(call.backend, call.outcomes[n])
       IN  /\ call' = [call EXCEPT !.attempt_number = n]
           /\ returned' =
                 IF attempt.raises = "None"
                 THEN [function |-> "retry", raises |-> "None", status |-> attempt.status]
                 ELSE IF n >= MAX_RETRIES
                 THEN [function |-> "retry", raises |-> "RetryError", status |-> "none"]
                 ELSE NotReturned
    /\ UNCHANGED <<run_vars, rate_vars>>

RetryNext == Attempt

RetrySpec == RetryInit /\ [][RetryNext]_vars

\* C13 (as stated): a call whose first attempt fails transiently and whose second
\* attempt would succeed returns the successful result.
C13_RetriedUntilSuccess ==
    (/\ returned.function = "retry"
     /\ call.outcomes[1] \in Transient
     /\ call.outcomes[2] \in Parsed(call.backend))
        => returned.status = call.outcomes[2]

(***************************************************************************)
(* DictionaryAPIClient.batch_lookup: the gathered lookups and the rate     *)
(* limiter of the one MerriamWebsterAPI instance they share (key set).     *)
(* The clock counts ticks; a coroutine runs from one await to the next     *)
(* without the others running in between.                                  *)
(***************************************************************************)
\* the words of a batch_lookup call
MaxTasks == 3
\* the clock is followed up to this tick
MaxTime == 5
\* self.request_delay = MW_REQUEST_DELAY, in ticks
request_delay == 2

Gathered == [pc |-> "gathered", wake |-> 0]

\* a semaphore that counts no holder
InSemaphore_uncounted == {}

\* the lookups holding the semaphore
InSemaphore == {t \in 1..Len(tasks) : tasks[t].pc \in {"sleeping", "requesting"}}

RateInit ==
    /\ \E n \in 1..MaxTasks : tasks = [t \in 1..n |-> Gathered]
    /\ \E m \in 1..MaxTasks : call = [function |-> "batch_lookup", max_concurrent |-> m]
    /\ returned = NotReturned
    /\ loop_time \in 0..request_delay
    /\ last_request_time = 0
    /\ requests = <<>>
    /\ NoRun

\* the end of _rate_limit and client.get: the request goes out at the current time
Request(t) ==
    /\ last_request_time' = loop_time
    /\ requests' = Append(requests, loop_time)
    /\ tasks' = [tasks EXCEPT ![t].pc = "requesting"]

\* limited_lookup takes the semaphore and lookup_word enters _rate_limit: it reads
\* the clock and _last_request_time, and either goes to sleep or goes on at once
Enter(t) ==
    /\ tasks[t].pc = "gathered"
    /\ Cardinality(InSemaphore) < call.max_concurrent
    /\ LET time_since_last == loop_time - last_request_time
       IN  IF time_since_last < request_delay
           THEN /\ tasks' = [tasks EXCEPT ![t] =
                                [pc |-> "sleeping",
                                 wake |-> loop_time + (request_delay - time_since_last)]]
                /\ UNCHANGED <<last_request_time, requests>>
           ELSE Request(t)
    /\ UNCHANGED <<loop_time, call_vars, run_vars>>

\* asyncio.sleep is over: _rate_limit sets _last_request_time and returns
Wake(t) ==
    /\ tasks[t].pc = "sleeping"
    /\ loop_time >= tasks[t].wake
    /\ Request(t)
    /\ UNCHANGED <<loop_time, call_vars, run_vars>>

\* the lookup is over and the semaphore released
Respond(t) ==
    /\ tasks[t].pc = "requesting"
    /\ tasks' = [tasks EXCEPT ![t].pc = "done"]
    /\ UNCHANGED <<loop_time, last_request_time, requests, call_vars, run_vars>>

\* time passes
Tick ==
    /\ tasks # <<>>
    /\ loop_time < MaxTime
    /\ loop_time' = loop_time + 1
    /\ UNCHANGED <<last_request_time, tasks, requests, call_vars, run_vars>>

\* asyncio.gather returns: every lookup is over, and the results are listed by the
\* position of their task, which is the position of its word in the input
Gather ==
    /\ tasks # <<>>
    /\ returned = NotReturned
    /\ \A t \in 1..Len(tasks) : tasks[t].pc = "done"
    /\ returned' = [function |-> "batch_lookup",
                    results |-> [t \in 1..Len(tasks) |-> [word |-> t]]]
    /\ UNCHANGED <<call, rate_vars, run_vars>>

RateNext ==
    \/ \E t \in 1..Len(tasks) : Enter(t)
    \/ \E t \in 1..Len(tasks) : Wake(t)
    \/ \E t \in 1..Len(tasks) : Respond(t)
    \/ Tick
    \/ Gather

RateSpec == RateInit /\ [][RateNext]_vars

\* C14 (as stated): any two requests of the backend instance are at least the
\* minimum delay apart.
C14_MinimumDelay ==
    \A a, b \in 1..Len(requests) :
        a < b => requests[b] - requests[a] >= request_delay

(***************************************************************************)
(* WordPrioritizer.prioritize_words on its own.                            *)
(***************************************************************************)
MaxWords == 4

cat == <<"c","a","t">>
kiwi == <<"k","i","w","i">>
\* two words of the highest tier, one of the next tier, one the pre-filter rejects
PriorityWords == {mind, cat, kiwi, qzxjk}

PriorityCalls ==
    [function : {"prioritize_words"}, words : SeqsUpTo(PriorityWords, MaxWords),
     limit : 0..MaxLimit]

PriorityInit ==
    /\ call \in PriorityCalls
    /\ returned = NotReturned
    /\ NoRun
    /\ NoTasks

\* prioritizer.prioritize_words(words, limit): it raises, or returns one of the
\* lists its random choices allow
CallPrioritizeWords ==
    /\ call.function = "prioritize_words"
    /\ returned = NotReturned
    /\ LET p == prioritize_words(call.words, call.limit)
       IN  IF p.raises # "None"
           THEN returned' = [function |-> "prioritize_words", raises |-> p.raises,
                             result |-> <<>>]
           ELSE \E result \in p.results :
                   returned' = [function |-> "prioritize_words", raises |-> "None",
                                result |-> result]
    /\ UNCHANGED <<call, run_vars, rate_vars>>

PriorityNext == CallPrioritizeWords

PrioritySpec == PriorityInit /\ [][PriorityNext]_vars

superfluousness == <<"s","u","p","e","r","f","l","u","o","u","s","n","e","s","s">>

ScenarioCorpus == <<mind, qzxjk, superfluousness>>

ScenarioInit ==
    /\ corpus = ScenarioCorpus
    /\ file = Absent
    /\ pc = "idle"
    /\ Locals
    /\ resolved = {}
    /\ wiped = FALSE
    /\ NoCalls
    /\ NoTasks

ScenarioSpec == ScenarioInit /\ [][Next]_vars

\* a run of the scenario has returned its report: empty checkpoint, limit 2,
\* priority mode, and every word looked up was found Valid and promoted
ScenarioRun ==
    /\ pc = "done"
    /\ results.kind = "report"
    /\ before = ZeroProgress
    /\ limit = 2
    /\ ~sample_mode
    /\ all_still_invalid = <<>>

\* C16 (as stated): in the scenario the pre-filter rejects only "qzxjk", "mind" and
\* "superfluousness" are selected, and the run reports validated = 2, promoted = 2
\* with both words promoted, the checkpoint counters going up by 2 and 2.
C16_BothSelected ==
    ScenarioRun =>
        /\ Range(candidates) = {mind, superfluousness}
        /\ results.validated = 2
        /\ results.promoted = 2
        /\ Range(results.promoted_words) = {mind, superfluousness}
        /\ OnFile.validated_count = 2
        /\ OnFile.promoted_count = 2

\* C16 (amended): in the scenario the pre-filter rejects "qzxjk" and also
\* "superfluousness" (productive prefix "super"), "mind" alone is selected, and the
\* run reports validated = 1, promoted = 1 with "mind" promoted, the checkpoint
\* counters going up by 1 and 1.
C16_OnlyMindSelected ==
    ScenarioRun =>
        /\ likely_english(corpus) = <<mind>>
        /\ candidates = <<mind>>
        /\ validate(VALIDATION_RULES, mind).is_valid
        /\ results.validated = 1
        /\ results.promoted = 1
        /\ results.promoted_words = <<mind>>
        /\ OnFile.validated_count = 1
        /\ OnFile.promoted_count = 1

\* the scenario's run has returned its report
C16_Witness == ScenarioRun /\ results.promoted = 1

(***************************************************************************)
(* MerriamWebsterAPI._parse_response: the match test and the               *)
(* classification of the first entry of a response.                        *)
(***************************************************************************)
\* str.isupper(): there is a cased character and no cased character is lower-case
str_isupper(s) ==
    /\ \E k \in 1..Len(s) : s[k] \in UpperSet
    /\ \A k \in 1..Len(s) : s[k] \notin LowerSet

\* s.split(":")[0]
RECURSIVE split_colon_first(_)
split_colon_first(s) ==
    IF s = <<>> \/ Head(s) = ":" THEN <<>> ELSE <<Head(s)>> \o split_colon_first(Tail(s))

\* hw.replace("*", "")
remove_stars(hw) == SelectSeq(hw, LAMBDA c : c # "*")

\* a stem counts when the word occurs in it
entry_matches_word_partial(entry, word) ==
    LET word_lower == str_lower(word)
    IN  \/ str_lower(split_colon_first(entry.id)) = word_lower
        \/ str_lower(remove_stars(entry.hw)) = word_lower
        \/ \E k \in 1..Len(entry.stems) : contains(str_lower(entry.stems[k]), word_lower)

\* _entry_matches_word(entry, word); a key the entry lacks reads as empty
entry_matches_word(entry, word) ==
    LET word_lower == str_lower(word)
        base_id == IF entry.id # <<>> THEN str_lower(split_colon_first(entry.id)) ELSE <<>>
        clean_hw == str_lower(remove_stars(entry.hw))
    IN  \/ base_id = word_lower
        \/ clean_hw = word_lower
        \/ \E k \in 1..Len(entry.stems) : str_lower(entry.stems[k]) = word_lower

abbreviation_label == <<"a","b","b","r","e","v","i","a","t","i","o","n">>

\* _is_abbreviation(entry)
is_abbreviation(entry) ==
    LET fl == str_lower(entry.fl)
        clean_hw == remove_stars(entry.hw)
    IN  \/ contains(fl, abbreviation_label)
        \/ clean_hw # <<>> /\ Len(clean_hw) > 1 /\ str_isupper(clean_hw)

\* _is_proper_noun(entry)
is_proper_noun(entry) ==
    LET clean_hw == remove_stars(entry.hw)
    IN  IF clean_hw # <<>> /\ str_isupper(clean_hw) THEN FALSE
        ELSE IF clean_hw # <<>> /\ clean_hw[1] \in UpperSet THEN TRUE
        ELSE entry.section \in {"biog", "geog"}

\* _parse_response(word, data): the status of the result. data is the decoded
\* body: an empty list, a list of suggestions, or a list whose first entry is given
parse_response(word, data) ==
    IF data.kind = "empty" THEN NOT_FOUND
    ELSE IF data.kind = "suggestions" THEN NOT_FOUND
    ELSE IF ~entry_matches_word(data.entry, word) THEN NOT_FOUND
    ELSE IF is_abbreviation(data.entry) THEN ABBREVIATION
    ELSE IF is_proper_noun(data.entry) THEN PROPER_NOUN
    ELSE VALID

\* the words queried and the fields of the entries answered
Mind == <<"M","i","n","d">>
noher == <<"n","o","h","e","r">>
letter_a == <<"a">>
noun_label == <<"n","o","u","n">>

ParseWords == {mind, noher, Mind, letter_a}
EntryIds == {<<>>, <<"m","i","n","d",":","1">>, Mind, <<"n","o","h","e","r",":","2">>, letter_a}
Headwords == {<<>>, mind, <<"m","i","*","n","d">>, Mind, <<"A">>, <<"N","A","*","S","A">>}
StemLists == {<<>>, <<mind>>, <<mind, <<"N","o","h","e","r">>>>, <<noher \o <<"b">>>>}
Labels == {<<>>, noun_label, abbreviation_label, noun_label \o <<" ">> \o abbreviation_label}
Sections == {"alpha", "biog", "geog"}

Entries == [id : EntryIds, hw : Headwords, stems : StemLists, fl : Labels, section : Sections]
NoEntry == [id |-> <<>>, hw |-> <<>>, stems |-> <<>>, fl |-> <<>>, section |-> "alpha"]
Responses ==
    {[kind |-> "empty", entry |-> NoEntry], [kind |-> "suggestions", entry |-> NoEntry]}
        \cup [kind : {"entries"}, entry : Entries]

ParseCalls == [function : {"_parse_response"}, word : ParseWords, data : Responses]

ParseInit ==
    /\ call \in ParseCalls
    /\ returned = NotReturned
    /\ NoRun
    /\ NoTasks

\* self._parse_response(word, data)
CallParseResponse ==
    /\ call.function = "_parse_response"
    /\ returned = NotReturned
    /\ returned' = [function |-> "_parse_response",
                    status |-> parse_response(call.word, call.data)]
    /\ UNCHANGED <<call, run_vars, rate_vars>>

ParseNext == CallParseResponse

ParseSpec == ParseInit /\ [][ParseNext]_vars

\* the identifier without its ':N' homograph suffix
StripHomograph(id) ==
    IF Len(id) >= 2 /\ id[Len(id) - 1] = ":" /\ id[Len(id)] \in {"1", "2", "3"}
    THEN SubSeq(id, 1, Len(id) - 2)
    ELSE id

SameIgnoringCase(a, b) == str_lower(a) = str_lower(b)

\* the match test as the claim words it
Matches(word, entry) ==
    \/ SameIgnoringCase(word, StripHomograph(entry.id))
    \/ SameIgnoringCase(word, SelectSeq(entry.hw, LAMBDA c : c # "*"))
    \/ \E stem \in Range(entry.stems) : SameIgnoringCase(word, stem)

\* C17: a response whose first entry is an entry is reported other than NotFound
\* exactly when the queried word equals, ignoring case, the entry's identifier
\* without its ':N' suffix, or its headword without '*', or a whole element of its
\* stems; an entry that fails this is reported NotFound whatever else it holds.
C17_ExactMatchOnly ==
    (returned.function = "_parse_response" /\ call.data.kind = "entries") =>
        (returned.status # NOT_FOUND <=> Matches(call.word, call.data.entry))

\* "noher" was queried, the entry is the one of "mind" with a stem that only
\* contains "noher", and the result is NotFound
C17_Witness ==
    /\ returned.function = "_parse_response"
    /\ call.word = noher
    /\ call.data.kind = "entries"
    /\ call.data.entry.id = <<"m","i","n","d",":","1">>
    /\ call.data.entry.stems = <<noher \o <<"b">>>>
    /\ call.data.entry.fl = abbreviation_label
    /\ returned.status = NOT_FOUND

\* the classification as the claim words it
Classification(entry) ==
    LET clean_hw == SelectSeq(entry.hw, LAMBDA c : c # "*")
        fully_upper == clean_hw # <<>> /\ \A c \in Range(clean_hw) : c \in UpperSet
    IN  IF contains(str_lower(entry.fl), abbreviation_label)
           \/ (fully_upper /\ Len(clean_hw) > 1)
        THEN ABBREVIATION
        ELSE IF (clean_hw # <<>> /\ clean_hw[1] \in UpperSet /\ ~fully_upper)
                \/ entry.section \in {"biog", "geog"}
        THEN PROPER_NOUN
        ELSE VALID

\* C18 (as stated): a matched entry is classified Abbreviation, else ProperNoun,
\* else Valid by the rule of the claim, a biographical or geographical section
\* making a proper noun whatever the case of the headword.
C18_Classification ==
    (/\ returned.function = "_parse_response"
     /\ call.data.kind = "entries"
     /\ returned.status # NOT_FOUND)
        => returned.status = Classification(call.data.entry)

(***************************************************************************)
(* WordValidator.validate on its own, under the default rules and under    *)
(* rules that allow upper-case or non-alphabetic words.                    *)
(***************************************************************************)
RuleSets ==
    [lowercase_only : BOOLEAN, alphabetic_only : BOOLEAN,
     min_length : {MIN_LENGTH}, max_length : {MAX_LENGTH}]

\* the lengths around the two limits
CoreLengths == {0, MIN_LENGTH - 1, MIN_LENGTH, MIN_LENGTH + 1,
                MAX_LENGTH - 1, MAX_LENGTH, MAX_LENGTH + 1}

\* n letters a, the first one replaced by c when n > 0
Letters(c, n) == [k \in 1..n |-> IF k = 1 THEN c ELSE "a"]

\* all lower-case; an upper-case letter; a digit; a blank within the word
Cores == {Letters(c, n) : c \in {"a", "A", "1"}, n \in CoreLengths}
            \cup {<<"a", " ">> \o Letters("a", n) : n \in CoreLengths}
Leading == {<<>>, <<" ">>, <<"\t", " ">>}
Trailing == {<<>>, <<"\n">>}
RuleInputs == {pre \o core \o post : pre \in Leading, core \in Cores, post \in Trailing}

RuleCalls ==
    [function : {"validate"}, rules : RuleSets, is_none : {FALSE}, word : RuleInputs]
        \cup [function : {"validate"}, rules : RuleSets, is_none : {TRUE}, word : {<<>>}]

RuleInit ==
    /\ call \in RuleCalls
    /\ returned = NotReturned
    /\ NoRun
    /\ NoTasks

\* WordValidator(rules).validate(word); None takes the branch of the empty string
\* and is returned as ""
CallValidate ==
    /\ call.function = "validate"
    /\ returned = NotReturned
    /\ LET result == validate(call.rules, IF call.is_none THEN <<>> ELSE call.word)
       IN  returned' = [function |-> "validate", word |-> result.word,
                        is_valid |-> result.is_valid, reason |-> result.reason]
    /\ UNCHANGED <<call, run_vars, rate_vars>>

RuleNext == CallValidate

RuleSpec == RuleInit /\ [][RuleNext]_vars

\* the word without the whitespace around it: from its first character that is
\* not whitespace to its last
Trimmed(w) ==
    LET solid == {k \in 1..Len(w) : w[k] \notin Whitespace}
    IN  IF solid = {} THEN <<>>
        ELSE SubSeq(w, CHOOSE k \in solid : \A j \in solid : k <= j,
                       CHOOSE k \in solid : \A j \in solid : k >= j)

\* C19: under the default rules validate accepts exactly the inputs that are not
\* None and, trimmed, are made of lower-case letters a-z only and are 2 to 45
\* characters long; every other input is rejected with a reason.
C19_AcceptsExactly ==
    (returned.function = "validate" /\ call.rules = VALIDATION_RULES) =>
        /\ returned.is_valid <=>
              /\ ~call.is_none
              /\ \A c \in Range(Trimmed(call.word)) : c \in LowerSet
              /\ Len(Trimmed(call.word)) >= 2
              /\ Len(Trimmed(call.word)) <= 45
        /\ ~returned.is_valid => returned.reason # "None"

\* a word of 45 letters with whitespace around it was accepted under the default rules
C19_Witness ==
    /\ returned.function = "validate"
    /\ call.rules = VALIDATION_RULES
    /\ Len(Trimmed(call.word)) = 45
    /\ Len(call.word) > 46
    /\ returned.is_valid

\* C20 (as stated): under any rules, the word of an accepting outcome is the input
\* trimmed of the whitespace around it and put in lower case.
C20_CanonicalOnAcceptance ==
    (returned.function = "validate" /\ returned.is_valid) =>
        returned.word = str_lower(Trimmed(call.word))

\* the words of the run that validate_batch has put in valid, and in still_invalid
PromotedSoFar == all_valid \o valid
NotPromotedSoFar == all_still_invalid \o still_invalid

\* C21: every word a run has processed is in exactly one of the two lists; a word
\* the rule validator rejects is not looked up; and a word is promoted exactly
\* when the rule validator accepted it and its lookup ended Valid.
C21_WordOutcome ==
    /\ [](pc \in {"batches", "saving", "saved", "done"} =>
             Len(PromotedSoFar) + Len(NotPromotedSoFar) = i)
    /\ [][(pc = "batches" /\ i' = i + 1) =>
             LET word == candidates[i + 1]
                 accepted == validate(VALIDATION_RULES, word).is_valid
                 promoted == accepted /\ last_lookup'.status = VALID
             IN  /\ ~accepted => last_lookup' = NoLookup
                 /\ accepted => last_lookup'.word = word /\ last_lookup'.calls # <<>>
                 /\ IF promoted
                    THEN /\ PromotedSoFar' = Append(PromotedSoFar, word)
                         /\ NotPromotedSoFar' = NotPromotedSoFar
                    ELSE /\ PromotedSoFar' = PromotedSoFar
                         /\ NotPromotedSoFar' = Append(NotPromotedSoFar, word)]_vars

\* a run has promoted one word and not promoted another, which the rule validator
\* rejected
C21_Witness ==
    /\ pc = "batches"
    /\ i = 2
    /\ Len(PromotedSoFar) = 1
    /\ Len(NotPromotedSoFar) = 1
    /\ ~validate(VALIDATION_RULES, candidates[2]).is_valid
    /\ last_lookup = NoLookup

\* C22: once a run has saved its progress, every word it processed is in
\* validated_words on file, promoted or not, rule-rejected, errored or not found
\* alike; and no word that was in validated_words when a run started is among the
\* words that run processes.
C22_AllOutcomesRecorded ==
    /\ pc \in {"saved", "done"} /\ results.kind # "empty" =>
          /\ \A k \in 1..Len(candidates) :
                candidates[k] \in Range(OnFile.validated_words)
          /\ OnFile.validated_words = before.validated_words \o candidates
    /\ pc \in {"batches", "saving", "saved"} =>
          Range(candidates) \cap Range(before.validated_words) = {}

\* the progress saved holds a word the rule validator rejected and none promoted
C22_Witness ==
    /\ pc = "saved"
    /\ all_valid = <<>>
    /\ \E k \in 1..Len(candidates) :
          /\ ~validate(VALIDATION_RULES, candidates[k]).is_valid
          /\ candidates[k] \in Range(OnFile.validated_words)

\* the candidates of a list that are in tier t
InTier(cands, t) == {k \in 1..Len(cands) : tier_of(cands[k].score) = t}

\* the words of the call that pass the pre-filter, scored
Survivors == [k \in 1..Len(likely_english(call.words)) |->
                 CandidateWord(likely_english(call.words)[k])]

\* the call is one where the survivors are not sampled before scoring
NotPresampled == Len(likely_english(call.words)) <= call.limit * PRESAMPLE_FACTOR

Requested == {t \in 1..Len(tasks) : tasks[t].pc \in {"requesting", "done"}}

\* C24: in batch_lookup at most max_concurrent lookups are in flight at any
\* moment, whatever the number of words; every word is looked up once; and the
\* results come back in the order of the words.
C24_BoundedConcurrency ==
    call.function = "batch_lookup" =>
        /\ Cardinality({t \in 1..Len(tasks) : tasks[t].pc \in {"sleeping", "requesting"}})
              <= call.max_concurrent
        /\ Len(requests) = Cardinality(Requested)
        /\ returned.function = "batch_lookup" =>
              /\ Len(requests) = Len(tasks)
              /\ Len(returned.results) = Len(tasks)
              /\ \A t \in 1..Len(tasks) : returned.results[t].word = t

\* more words than max_concurrent: the semaphore is full and a lookup waits for it
C24_Witness ==
    /\ call.function = "batch_lookup"
    /\ Len(tasks) > call.max_concurrent
    /\ Cardinality({t \in 1..Len(tasks) : tasks[t].pc \in {"sleeping", "requesting"}})
          = call.max_concurrent
    /\ \E t \in 1..Len(tasks) : tasks[t].pc = "gathered"
    /\ \E t \in 1..Len(tasks) : tasks[t].pc = "done"

(***************************************************************************)
(* WordPrioritizer.score_word on its own.                                  *)
(***************************************************************************)
MaxScoreLength == 4

ScoreLetters == {"a", "t", "x"}
reted == <<"r","e","t","e","d">>
ultraxxxxxxxxxxxx == <<"u","l","t","r","a">> \o [k \in 1..12 |-> "x"]

\* every word of a few letters, the words of the other parts of the model, one
\* whose bonuses sum above 100 and one whose penalties sum below 0
ScoreWords ==
    (SeqsUpTo(ScoreLetters, MaxScoreLength) \ {<<>>})
        \cup {mind, cat, kiwi, qzxjk, superfluousness, reted, ultraxxxxxxxxxxxx}

ScoreCalls == [function : {"score_word"}, word : ScoreWords]

ScoreInit ==
    /\ call \in ScoreCalls
    /\ returned = NotReturned
    /\ NoRun
    /\ NoTasks

\* prioritizer.score_word(word)
CallScoreWord ==
    /\ call.function = "score_word"
    /\ returned = NotReturned
    /\ returned' = [function |-> "score_word", word |-> call.word,
                    score |-> score_word(call.word)]
    /\ UNCHANGED <<call, run_vars, rate_vars>>

ScoreNext == CallScoreWord

ScoreSpec == ScoreInit /\ [][ScoreNext]_vars

\* C25: the score of a non-empty word is between 0 and 100: it is the sum of the
\* base and the adjustments when that lies in the range, 100 when the sum is
\* above 100 and 0 when it is below 0.
C25_ScoreClamped ==
    returned.function = "score_word" =>
        LET sum == raw_score(call.word) IN
        /\ returned.score >= 0
        /\ returned.score <= 100
        /\ sum > 100 => returned.score = 100
        /\ sum < 0 => returned.score = 0
        /\ (0 <= sum /\ sum <= 100) => returned.score = sum

\* a word whose bonuses sum to 105 was scored 100
C25_Witness ==
    /\ returned.function = "score_word"
    /\ raw_score(call.word) = 105
    /\ returned.score = 100

\* C26 (as stated): whenever the process stops after its run has written the
\* checkpoint, the words whose promotion that checkpoint counts have been
\* appended to the promoted-words log.
C26_PromotedAreLogged ==
    [][(PlainRun /\ pc \in {"saved", "done", "logged"} /\ pc' = "idle") =>
          Range(all_valid) \subseteq logged_words]_vars

\* the run is past its selection
Selecting == pc \in {"batches", "saving", "saved", "done", "logged"}

\* the words of the remaining corpus that pass the Stage A pre-filter
Survive(lines, progress_file) == likely_english(load_invalid_words(lines, progress_file))

\* C27: in priority mode a word that fails the Stage A pre-filter is never among
\* the candidates, never looked up and never added to validated_words; and a
\* priority-mode run that starts when no remaining word passes Stage A ends
\* without selecting anything and leaves the checkpoint as it was.
C27_StageAFailuresUntouched ==
    /\ []((Selecting /\ ~sample_mode) =>
            /\ \A k \in 1..Len(candidates) : is_likely_english(candidates[k])
            /\ last_lookup.status # "none" => is_likely_english(last_lookup.word)
            /\ \A w \in Range(OnFile.validated_words) \ Range(before.validated_words) :
                  is_likely_english(w))
    /\ [][/\ (pc \in {"idle", "reset_done"} /\ pc' \notin {"idle", "reset_done"}
                /\ ~sample_mode' /\ Survive(corpus, file) = <<>>) =>
                (pc' \in {"done", "crashed"} /\ candidates' = <<>> /\ file' = file)
          /\ (pc \in {"done", "crashed", "logged"}) => file' = file]_vars

\* a priority-mode run on a corpus that holds a Stage A failure has saved its
\* checkpoint: the failure is still in the remaining pool and not on file
C27_Witness ==
    /\ pc = "saved"
    /\ ~sample_mode
    /\ qzxjk \in Range(invalid_words)
    /\ candidates = <<mind>>
    /\ Range(OnFile.validated_words) = {mind}
    /\ Survive(corpus, file) = <<>>

\* C28: whenever the checkpoint can be read, its validated_count is the length
\* of its validated_words list and its promoted_count is at most its
\* validated_count.
C28_CountersMatchList ==
    file.state = "ok" =>
        /\ file.data.validated_count = Len(file.data.validated_words)
        /\ file.data.promoted_count <= file.data.validated_count

\* the checkpoint was written by a second run on top of a first one's, with a
\* word promoted and a word not promoted on it
C28_Witness ==
    /\ pc = "saved"
    /\ before.validated_count = 1
    /\ file.state = "ok"
    /\ file.data.validated_count = 2
    /\ file.data.promoted_count = 1

\* C29: in the report of a run that processed candidates, validated is promoted
\* plus still_invalid, promoted is the length of promoted_words, remaining is
\* the size of the pool the run started from less validated, and total_validated
\* and total_promoted are the counters of the checkpoint the run wrote.
C29_ReportIdentities ==
    (pc \in {"done", "logged"} /\ results.kind = "report") =>
        /\ results.validated = results.promoted + results.still_invalid
        /\ results.promoted = Len(results.promoted_words)
        /\ results.remaining =
              Len(load_invalid_words(corpus, Stored(before))) - results.validated
        /\ file.state = "ok"
        /\ results.total_validated = file.data.validated_count
        /\ results.total_promoted = file.data.promoted_count

\* the report of a second run, which promoted its one candidate after a first
\* run had promoted none
C29_Witness ==
    /\ pc = "done"
    /\ results.kind = "report"
    /\ results.validated = 1
    /\ results.promoted = 1
    /\ results.still_invalid = 0
    /\ results.total_validated = 2
    /\ results.total_promoted = 1
    /\ results.remaining = 0

(***************************************************************************)
(* One word of validate_batch with the bodies the secondary and tertiary   *)
(* backends answer: each backend's _parse_response, then lookup_word.      *)
(***************************************************************************)
\* the medical entries classified like the primary's
Medical_parse_response_classifying(word, data) == parse_response(word, data)

\* MerriamWebsterMedicalAPI._parse_response(word, data): the status of the result;
\* its _entry_matches_word is the primary's, line for line
Medical_parse_response(word, data) ==
    IF data.kind = "empty" THEN NOT_FOUND
    ELSE IF data.kind = "suggestions" THEN NOT_FOUND
    ELSE IF ~entry_matches_word(data.entry, word) THEN NOT_FOUND
    ELSE VALID

\* FreeDictionaryAPI._parse_response(word, data): the status of the result.
\* data.word is the first entry's "word", empty when the entry has no such key
Free_parse_response(word, data) ==
    LET entry_word == str_lower(data.word)
    IN  IF data.kind = "empty" THEN NOT_FOUND
        ELSE IF entry_word # <<>> /\ entry_word # str_lower(word) THEN NOT_FOUND
        ELSE VALID

\* the word, the keys that are set, the primary's result and the bodies of the
\* other two backends
FallbackCalls ==
    [function : {"validate_batch"},
     word : {mind, noher},
     keys : KeySets,
     mw_reply : MWReplies,
     med_data : {[kind |-> "empty", entry |-> NoEntry],
                 [kind |-> "suggestions", entry |-> NoEntry]}
                   \cup [kind : {"entries"},
                         entry : [id : {<<>>, <<"m","i","n","d",":","1">>},
                                  hw : {<<>>, Mind, <<"N","A","*","S","A">>},
                                  stems : {<<>>, <<mind>>},
                                  fl : {noun_label, abbreviation_label},
                                  section : {"alpha", "biog"}]],
     free_data : [kind : {"empty"}, word : {<<>>}, partOfSpeech : {<<>>}]
                   \cup [kind : {"entries"},
                         word : {<<>>, mind, Mind, noher},
                         partOfSpeech : {<<>>, noun_label, abbreviation_label}]]

FallbackInit ==
    /\ call \in FallbackCalls
    /\ returned = NotReturned
    /\ NoRun
    /\ NoTasks

\* validate_batch on the one word: the rule check, the lookup through the three
\* backends, and the list the word is appended to
CallValidateBatch ==
    /\ call.function = "validate_batch"
    /\ returned = NotReturned
    /\ LET rule_result == validate(VALIDATION_RULES, call.word)
           result == lookup_word(call.keys, TRUE, TRUE, call.mw_reply,
                                 Medical_parse_response(call.word, call.med_data),
                                 Free_parse_response(call.word, call.free_data))
       IN  returned' = [function |-> "validate_batch",
                        looked_up |-> rule_result.is_valid,
                        status |-> result.status,
                        calls |-> result.calls,
                        valid |-> IF promotes(rule_result, result.status)
                                  THEN <<call.word>> ELSE <<>>]
    /\ UNCHANGED <<call, run_vars, rate_vars>>

FallbackNext == CallValidateBatch

FallbackSpec == FallbackInit /\ [][FallbackNext]_vars

\* the primary backend reported NotFound for the word of the call
PrimaryNotFound == MW_lookup_word(call.keys.mw, call.mw_reply) = NOT_FOUND

\* the secondary backend is configured and answered an entry that matches the word
MedicalMatch ==
    /\ call.keys.medical
    /\ call.med_data.kind = "entries"
    /\ Matches(call.word, call.med_data.entry)

\* the tertiary backend answered an entry whose word matches or is missing
FreeMatch ==
    /\ call.free_data.kind = "entries"
    /\ call.free_data.word = <<>> \/ SameIgnoringCase(call.free_data.word, call.word)

\* C30: Abbreviation and ProperNoun are results of the primary backend only;
\* when the primary reports NotFound and the secondary returns a matching entry,
\* or the tertiary returns an entry whose word matches or is missing, the result
\* is Valid whatever the entry's headword and label are, and the word is promoted.
C30_FallbackNotClassified ==
    returned.function = "validate_batch" =>
        /\ returned.status \in {ABBREVIATION, PROPER_NOUN} =>
              /\ returned.calls = <<Call("mw", returned.status)>>
              /\ call.mw_reply = returned.status
        /\ (PrimaryNotFound /\ (MedicalMatch \/ FreeMatch)) =>
              /\ returned.looked_up
              /\ returned.status = VALID
              /\ returned.valid = <<call.word>>

\* the primary reported NotFound and the medical backend answered the entry
\* headed "NASA" and labelled an abbreviation, which has the word among its
\* stems: the result is Valid and the word is promoted
C30_Witness ==
    /\ returned.function = "validate_batch"
    /\ PrimaryNotFound
    /\ MedicalMatch
    /\ ~FreeMatch
    /\ is_abbreviation(call.med_data.entry)
    /\ call.med_data.entry.fl = abbreviation_label
    /\ returned.status = VALID
    /\ returned.valid = <<call.word>>

====
